---- MODULE Spec2Model ----
(***************************************************************************)
(* Timing engine of the rhythm game in src/src/client/game/App.tsx: the    *)
(* track scheduler (spawnFromTrack), the per-circle lifecycle (animate),   *)
(* the judgment (handleCellPress), the keyboard resolver (handleKeyDown,   *)
(* handleKeyUp, getCellIndexFromKeys) and the session controller           *)
(* (startTrack, checkTrackFinished).                                       *)
(*                                                                         *)
(* Times are integer milliseconds, as Date.now() returns them.  A circle's *)
(* size is kept in thousandths (1000 = full size), which is exact for the  *)
(* growth duration of 1000 ms.  Pixel positions are not modelled.          *)
(***************************************************************************)
EXTENDS Integers, Sequences, FiniteSets, TLC

VARIABLES
    now,                \* the latest value Date.now() has returned
    cells,              \* cells[i].circles: the circles of grid cell i (React state)
    isPlaying,          \* React state isPlaying
    track,              \* React state track: the spawn events, fixed after construction
    trackStartTime,     \* trackStartTimeRef.current
    spawnedIndices,     \* spawnedIndicesRef.current
    pressedKeys,        \* the keyboard effect's pressedKeys set
    lastTriggeredKeys,  \* lastTriggeredKeysRef.current
    keyLog,             \* observer: the latest key events and the press each fired
    lastFrame,          \* observer: the time of the driver's latest animation frame
    runCount            \* observer: the number of runs started so far

vars == <<now, cells, isPlaying, track, trackStartTime, spawnedIndices,
          pressedKeys, lastTriggeredKeys, keyLog, lastFrame, runCount>>

-----------------------------------------------------------------------------
(* Program constants *)

GRID_SIZE == 3
CENTER_INDEX == 4
GROWTH_DURATION == 1000
HIT_WINDOW_START == 150
HIT_WINDOW_DURATION == 200
HIT_FEEDBACK_DURATION == 100
PERFECT_WINDOW == 25
GREAT_WINDOW == 50
GOOD_WINDOW == 100
SpawnBuffer == 10
MissBuffer == 50
OvershootLimit == 1100   \* circle.size <= 1.1, in thousandths
FullSize == 1000         \* Math.min(elapsed / duration, 1), in thousandths

Null == -1               \* null of a number-or-null field; every time is >= 0
NoRating == "none"       \* hitRating: null
Unresolved == "null"     \* hitStatus: null

CellIndexes == 0 .. (GRID_SIZE * GRID_SIZE - 1)
TapCells == CellIndexes \ {CENTER_INDEX}
ArrowKeys == {"ArrowUp", "ArrowDown", "ArrowLeft", "ArrowRight"}

-----------------------------------------------------------------------------
(* Bounds of the model *)

MaxTime == 1351       \* no event is observed after this time
ReadSkew == 1         \* most ms between the two Date.now() reads of one frame
MaxKeyLog == 4        \* key events the keyboard observer remembers
ScenarioLog == 5      \* key events the debounce scenario's observer remembers
FrameMax == 16        \* longest gap between two frames of the end-to-end driver
E2EHorizon == 1520    \* the end-to-end run is followed up to this time
MaxRuns == 2          \* runs the run-counting observer follows

\* The instants at which an event may happen: the edges of the windows of a
\* circle spawned at 0 (one off each side), the spawn edge of an event at
\* offset 300, and the completion edge of a track whose last offset is 0.
InstantPool ==
    {0, 289, 290, 849, 850, 1000, 1025, 1026, 1050, 1051, 1100, 1101, 1150,
     1200, 1201, 1250, 1251, 1300, 1301, 1351}

Instants == {t \in InstantPool : t <= MaxTime}

Min(a, b) == IF a <= b THEN a ELSE b
Abs(a) == IF a < 0 THEN -a ELSE a

-----------------------------------------------------------------------------
(* Pure functions *)

\* calculateHitRating with each window's edge left out of it
calculateHitRatingStrict(hitTime, perfectTime) ==
    LET timeDiff == Abs(hitTime - perfectTime)
    IN  IF timeDiff < PERFECT_WINDOW THEN "perfect"
        ELSE IF timeDiff < GREAT_WINDOW THEN "great"
        ELSE IF timeDiff < GOOD_WINDOW THEN "good"
        ELSE "ok"

\* calculateHitRating(hitTime, perfectTime)
calculateHitRating(hitTime, perfectTime) ==
    LET timeDiff == Abs(hitTime - perfectTime)
    IN  IF timeDiff <= PERFECT_WINDOW THEN "perfect"
        ELSE IF timeDiff <= GREAT_WINDOW THEN "great"
        ELSE IF timeDiff <= GOOD_WINDOW THEN "good"
        ELSE "ok"

\* getCellIndexFromKeys with the single directions tested before the corners
getCellIndexSinglesFirst(keys) ==
    LET hasUp == "ArrowUp" \in keys
        hasDown == "ArrowDown" \in keys
        hasLeft == "ArrowLeft" \in keys
        hasRight == "ArrowRight" \in keys
    IN  IF hasUp THEN 1
        ELSE IF hasDown THEN 7
        ELSE IF hasLeft THEN 3
        ELSE IF hasRight THEN 5
        ELSE Null

\* getCellIndexFromKeys with || for && in the corner tests
getCellIndexEitherKey(keys) ==
    LET hasUp == "ArrowUp" \in keys
        hasDown == "ArrowDown" \in keys
        hasLeft == "ArrowLeft" \in keys
        hasRight == "ArrowRight" \in keys
    IN  IF hasUp \/ hasLeft THEN 0
        ELSE IF hasUp \/ hasRight THEN 2
        ELSE IF hasDown \/ hasLeft THEN 6
        ELSE IF hasDown \/ hasRight THEN 8
        ELSE Null

\* getCellIndexFromKeys(pressedKeys): a cell index, or Null for null
getCellIndexFromKeys(keys) ==
    LET hasUp == "ArrowUp" \in keys
        hasDown == "ArrowDown" \in keys
        hasLeft == "ArrowLeft" \in keys
        hasRight == "ArrowRight" \in keys
    IN  IF hasUp /\ hasLeft THEN 0
        ELSE IF hasUp /\ hasRight THEN 2
        ELSE IF hasDown /\ hasLeft THEN 6
        ELSE IF hasDown /\ hasRight THEN 8
        ELSE IF hasUp THEN 1
        ELSE IF hasDown THEN 7
        ELSE IF hasLeft THEN 3
        ELSE IF hasRight THEN 5
        ELSE Null

\* The arrow key names in the order Array.prototype.sort() puts them.
SortedKeyNames == <<"ArrowDown", "ArrowLeft", "ArrowRight", "ArrowUp">>

\* Array.from(keys).sort().join(','): the sorted names, one per element (no
\* name holds a comma, so the joined string and this sequence determine each
\* other).
KeySignature(keys) == SelectSeq(SortedKeyNames, LAMBDA k : k \in keys)

\* Math.min(elapsed / duration, 1), in thousandths
Progress(elapsed, duration) ==
    Min((elapsed * FullSize) \div duration, FullSize)

\* The circle spawnFromTrack builds for track item `item` at index `index`.
NewCircle(item, index, t) ==
    [ id             |-> <<item.cellIndex, item.spawnTime, index>>,
      size           |-> 0,
      startTime      |-> t,
      duration       |-> GROWTH_DURATION,
      hitStatus      |-> Unresolved,
      hitTime        |-> Null,
      hitRating      |-> NoRating,
      hitWindowStart |-> t + GROWTH_DURATION - HIT_WINDOW_START,
      hitWindowEnd   |-> t + GROWTH_DURATION + HIT_WINDOW_DURATION,
      perfectTime    |-> t + GROWTH_DURATION,
      cellIndex      |-> item.cellIndex ]

EmptyCells == [i \in CellIndexes |-> <<>>]

\* The spawn test without its 10 ms of tolerance
IsDueNoBuffer(elapsed, item) == elapsed >= item.spawnTime

\* The test `elapsed >= item.spawnTime - 10` of spawnFromTrack
IsDue(elapsed, item) == elapsed >= item.spawnTime - SpawnBuffer

\* spawnFromTrack without its test of the spawned set
AlreadySpawnedNever(sp, index) == FALSE

\* The test `spawnedIndicesRef.current.has(index)` of spawnFromTrack
AlreadySpawned(sp, index) == index \in sp

\* The cell index validation without its test of the center
IsValidCellNoCenter(c) == ~(c < 0 \/ c >= GRID_SIZE * GRID_SIZE)

\* The cell index validation of spawnFromTrack
IsValidCell(c) ==
    ~(c = CENTER_INDEX \/ c < 0 \/ c >= GRID_SIZE * GRID_SIZE)

\* track.forEach of spawnFromTrack from index i on: st = [cells, spawned]
RECURSIVE SpawnLoop(_, _, _, _)
SpawnLoop(i, st, t, elapsed) ==
    IF i > Len(track) THEN st
    ELSE LET item == track[i]
             index == i - 1
             next ==
               IF AlreadySpawned(st.spawned, index) THEN st
               ELSE IF IsDue(elapsed, item)
               THEN [ spawned |-> st.spawned \cup {index},
                      cells |->
                        IF IsValidCell(item.cellIndex)
                        THEN [st.cells EXCEPT ![item.cellIndex] =
                                 Append(@, NewCircle(item, index, t))]
                        ELSE st.cells ]
               ELSE st
         IN  SpawnLoop(i + 1, next, t, elapsed)

\* spawnFromTrack() with Date.now() = t
spawnFromTrack(cs, sp, t) ==
    IF ~isPlaying \/ trackStartTime = Null
    THEN [cells |-> cs, spawned |-> sp]
    ELSE SpawnLoop(1, [cells |-> cs, spawned |-> sp], t, t - trackStartTime)

\* The miss test with >= for >
IsMissedAtBuffer(circle, t) == t >= circle.hitWindowEnd + MissBuffer

\* The test `now > circle.hitWindowEnd + missBuffer` of animate
IsMissed(circle, t) == t > circle.hitWindowEnd + MissBuffer

\* The map callback of animate without its test of hitStatus
AdvanceCircleUnfrozen(circle, t) ==
    IF IsMissed(circle, t)
    THEN [circle EXCEPT !.hitStatus = "miss", !.hitTime = t]
    ELSE [circle EXCEPT !.size = Progress(t - circle.startTime, circle.duration)]

\* The map callback of animate without its miss branch
AdvanceCircleNoMiss(circle, t) ==
    IF circle.hitStatus # Unresolved THEN circle
    ELSE [circle EXCEPT !.size = Progress(t - circle.startTime, circle.duration)]

\* The map callback of animate: one circle advanced to time t
AdvanceCircle(circle, t) ==
    IF circle.hitStatus # Unresolved THEN circle
    ELSE IF IsMissed(circle, t)
    THEN [circle EXCEPT !.hitStatus = "miss", !.hitTime = t]
    ELSE [circle EXCEPT !.size = Progress(t - circle.startTime, circle.duration)]

\* The filter callback with <= for < in its feedback test
KeepCircleStrict(circle, t) ==
    IF circle.hitTime # Null
    THEN t - circle.hitTime <= HIT_FEEDBACK_DURATION
    ELSE circle.size <= OvershootLimit

\* The filter callback of animate: whether the circle stays in its cell
KeepCircle(circle, t) ==
    IF circle.hitTime # Null
    THEN t - circle.hitTime < HIT_FEEDBACK_DURATION
    ELSE circle.size <= OvershootLimit

MapSeq(s, F(_)) == [i \in 1 .. Len(s) |-> F(s[i])]

\* The setCells updater of animate, applied only while the session plays
AdvanceCellsWhilePlaying(cs, t) ==
    IF isPlaying
    THEN [i \in CellIndexes |->
            SelectSeq(MapSeq(cs[i], LAMBDA c : AdvanceCircle(c, t)),
                      LAMBDA c : KeepCircle(c, t))]
    ELSE cs

\* The setCells updater of animate with Date.now() = t
AdvanceCells(cs, t) ==
    [i \in CellIndexes |->
        SelectSeq(MapSeq(cs[i], LAMBDA c : AdvanceCircle(c, t)),
                  LAMBDA c : KeepCircle(c, t))]

\* The first filter of handleCellPress: not yet hit and not past its window
IsUnhit(circle, t) ==
    circle.hitStatus = Unresolved /\ t <= circle.hitWindowEnd

\* The second filter of handleCellPress without the window's start
InWindowNoStart(circle, t) == t <= circle.hitWindowEnd

\* The second filter of handleCellPress: inside the hit window
InWindow(circle, t) ==
    t >= circle.hitWindowStart /\ t <= circle.hitWindowEnd

\* currentSize of handleCellPress
CurrentSize(circle, t) == Progress(t - circle.startTime, circle.duration)

\* Insertion for the comparator (a, b) => a.currentSize - b.currentSize
RECURSIVE InsertBySizeAscending(_, _, _)
InsertBySizeAscending(x, s, t) ==
    IF s = <<>> THEN <<x>>
    ELSE IF CurrentSize(x, t) < CurrentSize(Head(s), t) THEN <<x>> \o s
    ELSE <<Head(s)>> \o InsertBySizeAscending(x, Tail(s), t)

\* Insertion of x into a sequence sorted by (a, b) => b.currentSize - a.currentSize,
\* after the elements that compare equal (Array.prototype.sort is stable).
RECURSIVE InsertBySize(_, _, _)
InsertBySize(x, s, t) ==
    IF s = <<>> THEN <<x>>
    ELSE IF CurrentSize(x, t) > CurrentSize(Head(s), t) THEN <<x>> \o s
    ELSE <<Head(s)>> \o InsertBySize(x, Tail(s), t)

\* [...circlesInWindow].sort((a, b) => b.currentSize - a.currentSize)
RECURSIVE SortBySizeDesc(_, _)
SortBySizeDesc(s, t) ==
    IF s = <<>> THEN <<>>
    ELSE InsertBySize(s[Len(s)], SortBySizeDesc(SubSeq(s, 1, Len(s) - 1), t), t)

\* The update of the hit circle without its rating
HitUpdateNoRating(circle, hitCircle, t) ==
    [circle EXCEPT !.hitStatus = "correct",
                   !.hitTime = t,
                   !.size = CurrentSize(hitCircle, t)]

\* The update handleCellPress makes to the circle it hits
HitUpdate(circle, hitCircle, t) ==
    [circle EXCEPT !.hitStatus = "correct",
                   !.hitTime = t,
                   !.hitRating = calculateHitRating(t, hitCircle.perfectTime),
                   !.size = CurrentSize(hitCircle, t)]

\* The map callback of handleCellPress with both filters widened by the
\* miss buffer
PressCellWithBuffer(circles, t) ==
    LET unhitCircles ==
            SelectSeq(circles, LAMBDA c : IsUnhit(c, t - MissBuffer))
        circlesInWindow ==
            SelectSeq(unhitCircles, LAMBDA c :
                t >= c.hitWindowStart /\ t <= c.hitWindowEnd + MissBuffer)
        sortedCircles == SortBySizeDesc(circlesInWindow, t)
    IN  IF Len(unhitCircles) = 0 THEN circles
        ELSE IF Len(circlesInWindow) > 0
        THEN LET hitCircle == sortedCircles[1]
             IN  MapSeq(circles, LAMBDA c :
                        IF c.id = hitCircle.id THEN HitUpdate(c, hitCircle, t)
                        ELSE c)
        ELSE circles

\* The map callback of handleCellPress for the pressed cell
PressCell(circles, t) ==
    LET unhitCircles == SelectSeq(circles, LAMBDA c : IsUnhit(c, t))
        circlesInWindow == SelectSeq(unhitCircles, LAMBDA c : InWindow(c, t))
        sortedCircles == SortBySizeDesc(circlesInWindow, t)
    IN  IF Len(unhitCircles) = 0 THEN circles
        ELSE IF Len(circlesInWindow) > 0
        THEN LET hitCircle == sortedCircles[1]
             IN  MapSeq(circles, LAMBDA c :
                        IF c.id = hitCircle.id THEN HitUpdate(c, hitCircle, t)
                        ELSE c)
        ELSE circles

\* The setCells updater of handleCellPress(cellIndex) with Date.now() = t
handleCellPress(cs, cellIndex, t) ==
    [i \in CellIndexes |-> IF i # cellIndex THEN cs[i] ELSE PressCell(cs[i], t)]

\* trackEndTime of checkTrackFinished
RECURSIVE MaxSpawnTime(_)
MaxSpawnTime(tr) ==
    IF Len(tr) = 1 THEN tr[1].spawnTime
    ELSE LET m == MaxSpawnTime(Tail(tr))
         IN  IF tr[1].spawnTime >= m THEN tr[1].spawnTime ELSE m

TrackEndTime(tr) ==
    MaxSpawnTime(tr) + GROWTH_DURATION + HIT_WINDOW_DURATION + HIT_FEEDBACK_DURATION

\* The completion test with >= for >
IsFinishedAtEnd(tr, elapsed) ==
    IF Len(tr) = 0 THEN TRUE ELSE elapsed >= TrackEndTime(tr)

\* Whether checkTrackFinished stops the session at elapsed time `elapsed`
IsFinished(tr, elapsed) ==
    IF Len(tr) = 0 THEN TRUE ELSE elapsed > TrackEndTime(tr)

-----------------------------------------------------------------------------
(* The tracks a session may be constructed with *)

Item(c, s) == [cellIndex |-> c, spawnTime |-> s]

Tracks ==
    { <<>>,
      <<Item(3, 0)>>,
      <<Item(3, 0), Item(3, 300)>>,
      <<Item(1, 300), Item(1, 0)>>,
      <<Item(4, 0), Item(5, 300)>>,
      <<Item(9, 0), Item(-1, 0), Item(0, 0)>> }

-----------------------------------------------------------------------------
(* Operations *)

Init ==
    /\ now = 0
    /\ cells = EmptyCells
    /\ isPlaying = FALSE
    /\ track \in Tracks
    /\ trackStartTime = Null
    /\ spawnedIndices = {}
    /\ pressedKeys = {}
    /\ lastTriggeredKeys = {}
    /\ keyLog = <<>>
    /\ lastFrame = 0
    /\ runCount = 0

\* The instant after t, t itself when it is the last one
NextInstant ==
    [t \in Instants |->
        IF \E u \in Instants : u > t
        THEN CHOOSE u \in Instants : u > t /\ \A v \in Instants : v > t => u <= v
        ELSE t]

\* The times the next Date.now() may return: the current instant or the one
\* after it.  A tap on a cell that holds no circle changes nothing but `now`,
\* so every later instant is reached from every state.
Later == {now, NextInstant[now]}

\* startTrack without its reset of the cells
startTrackKeepCells(t) ==
    /\ ~isPlaying
    /\ now' = t
    /\ isPlaying' = TRUE
    /\ trackStartTime' = t
    /\ spawnedIndices' = {}
    /\ cells' = cells
    /\ UNCHANGED <<track, pressedKeys, lastTriggeredKeys>>

\* startTrack at time t.  The Start Track button is rendered only while
\* isPlaying is false.
startTrack(t) ==
    /\ ~isPlaying
    /\ now' = t
    /\ isPlaying' = TRUE
    /\ trackStartTime' = t
    /\ spawnedIndices' = {}
    /\ cells' = EmptyCells
    /\ UNCHANGED <<track, pressedKeys, lastTriggeredKeys>>

\* One animation frame: spawnFromTrack reads Date.now() = t1, then the
\* lifecycle update reads Date.now() = t2.
animate(t1, t2) ==
    LET st == spawnFromTrack(cells, spawnedIndices, t1)
    IN  /\ now' = t2
        /\ spawnedIndices' = st.spawned
        /\ cells' = AdvanceCells(st.cells, t2)
        /\ UNCHANGED <<isPlaying, track, trackStartTime, pressedKeys,
                       lastTriggeredKeys>>

\* A click or touch on cell c at time t
tap(c, t) ==
    /\ now' = t
    /\ cells' = handleCellPress(cells, c, t)
    /\ UNCHANGED <<isPlaying, track, trackStartTime, spawnedIndices,
                   pressedKeys, lastTriggeredKeys>>

\* handleKeyDown without its comparison of the two signatures
FiresPressNoDebounce(keys, last) == getCellIndexFromKeys(keys) # Null

\* Whether handleKeyDown, with the keys `keys` now held, calls handleCellPress
FiresPress(keys, last) ==
    /\ getCellIndexFromKeys(keys) # Null
    /\ KeySignature(keys) # KeySignature(last)

\* The cell handleKeyDown presses with `keys` held, Null when it presses none
PressOf(keys, last) ==
    IF FiresPress(keys, last) THEN getCellIndexFromKeys(keys) ELSE Null

\* handleKeyDown without its update of lastTriggeredKeysRef
handleKeyDownNoRecord(k, t) ==
    LET keys == pressedKeys \cup {k}
    IN  /\ pressedKeys' = keys
        /\ IF FiresPress(keys, lastTriggeredKeys)
           THEN /\ lastTriggeredKeys' = lastTriggeredKeys
                /\ now' = t
                /\ cells' = handleCellPress(cells, getCellIndexFromKeys(keys), t)
           ELSE UNCHANGED <<lastTriggeredKeys, now, cells>>
        /\ UNCHANGED <<isPlaying, track, trackStartTime, spawnedIndices>>

\* handleKeyDown for arrow key k; t is the Date.now() of handleCellPress
handleKeyDown(k, t) ==
    LET keys == pressedKeys \cup {k}
    IN  /\ pressedKeys' = keys
        /\ IF FiresPress(keys, lastTriggeredKeys)
           THEN /\ lastTriggeredKeys' = keys
                /\ now' = t
                /\ cells' = handleCellPress(cells, getCellIndexFromKeys(keys), t)
           ELSE UNCHANGED <<lastTriggeredKeys, now, cells>>
        /\ UNCHANGED <<isPlaying, track, trackStartTime, spawnedIndices>>

\* handleKeyUp without its else branch: only an emptied held set resets
AfterKeyUpClearOnly(keys, last) ==
    IF Cardinality(keys) = 0 THEN {} ELSE last

\* lastTriggeredKeysRef.current after handleKeyUp leaves `keys` held
AfterKeyUp(keys, last) ==
    IF Cardinality(keys) = 0 THEN {}
    ELSE IF KeySignature(keys) # KeySignature(last) THEN keys
    ELSE last

\* handleKeyUp for arrow key k
handleKeyUp(k) ==
    LET keys == pressedKeys \ {k}
    IN  /\ pressedKeys' = keys
        /\ lastTriggeredKeys' = AfterKeyUp(keys, lastTriggeredKeys)
        /\ UNCHANGED <<now, cells, isPlaying, track, trackStartTime,
                       spawnedIndices>>

\* checkTrackFinished at time t; its interval runs only while the session plays
checkTrackFinished(t) ==
    /\ isPlaying /\ trackStartTime # Null
    /\ now' = t
    /\ IF IsFinished(track, t - trackStartTime)
       THEN /\ isPlaying' = FALSE
            /\ trackStartTime' = Null
            /\ spawnedIndices' = {}
       ELSE UNCHANGED <<isPlaying, trackStartTime, spawnedIndices>>
    /\ UNCHANGED <<cells, track, pressedKeys, lastTriggeredKeys>>

-----------------------------------------------------------------------------
(* The session under arbitrary event times: frames, taps, starts and       *)
(* completion checks happen at any later instant, in any order.  A key     *)
(* press reaches the grid only as handleCellPress on a cell of TapCells,   *)
(* which a tap makes too; the keyboard itself is the next specification.   *)

StartStep ==
    \E t \in Later : startTrack(t) /\ UNCHANGED <<keyLog, lastFrame, runCount>>

FrameStep ==
    \E t1 \in Later : \E t2 \in {t1, NextInstant[t1]} :
        /\ t2 <= t1 + ReadSkew
        /\ animate(t1, t2)
        /\ UNCHANGED <<keyLog, lastFrame, runCount>>

TapStep ==
    \E c \in TapCells : \E t \in Later :
        tap(c, t) /\ UNCHANGED <<keyLog, lastFrame, runCount>>

CheckStep ==
    \E t \in Later : checkTrackFinished(t) /\ UNCHANGED <<keyLog, lastFrame, runCount>>

Next == StartStep \/ FrameStep \/ TapStep \/ CheckStep

Spec == Init /\ [][Next]_vars

-----------------------------------------------------------------------------
(* The same session with its runs counted: every start is a new run, up to *)
(* MaxRuns of them.                                                        *)

RunStartStep ==
    \E t \in Later :
        /\ runCount < MaxRuns
        /\ startTrack(t)
        /\ runCount' = runCount + 1
        /\ UNCHANGED <<keyLog, lastFrame>>

NextRuns == RunStartStep \/ FrameStep \/ TapStep \/ CheckStep

SpecRuns == Init /\ [][NextRuns]_vars

-----------------------------------------------------------------------------
(* The keyboard: any sequence of keydown and keyup events of the keys      *)
(* `keys`, a keyup of a key that is not held included.  keyLog remembers   *)
(* the latest n events: the keys held before each, and the cell it pressed *)
(* (Null when it pressed none).                                            *)

Remember(n, e) ==
    keyLog' = IF Len(keyLog) < n THEN Append(keyLog, e)
              ELSE Append(Tail(keyLog), e)

KeyDownEvent(k) ==
    [op |-> "keyDown", key |-> k, held |-> pressedKeys,
     press |-> PressOf(pressedKeys \cup {k}, lastTriggeredKeys)]

KeyUpEvent(k) ==
    [op |-> "keyUp", key |-> k, held |-> pressedKeys, press |-> Null]

KeyDownStep ==
    \E k \in ArrowKeys :
        /\ handleKeyDown(k, now)
        /\ Remember(MaxKeyLog, KeyDownEvent(k))
        /\ UNCHANGED <<lastFrame, runCount>>

KeyUpStep ==
    \E k \in ArrowKeys :
        /\ handleKeyUp(k)
        /\ Remember(MaxKeyLog, KeyUpEvent(k))
        /\ UNCHANGED <<lastFrame, runCount>>

NextKeys == KeyDownStep \/ KeyUpStep

InitKeys == Init /\ track = <<>>

SpecKeys == InitKeys /\ [][NextKeys]_vars

\* The same with the two keys of the debounce scenario and a longer memory.
ScenarioKeys == {"ArrowUp", "ArrowLeft"}

ScenarioKeyDown ==
    \E k \in ScenarioKeys :
        /\ handleKeyDown(k, now)
        /\ Remember(ScenarioLog, KeyDownEvent(k))
        /\ UNCHANGED <<lastFrame, runCount>>

ScenarioKeyUp ==
    \E k \in ScenarioKeys :
        /\ handleKeyUp(k)
        /\ Remember(ScenarioLog, KeyUpEvent(k))
        /\ UNCHANGED <<lastFrame, runCount>>

NextDebounce == ScenarioKeyDown \/ ScenarioKeyUp

SpecDebounce == InitKeys /\ [][NextDebounce]_vars

-----------------------------------------------------------------------------
(* A session played with the keyboard: the track of one event for cell 3,  *)
(* started and driven by frames at any later instants, with keydown and    *)
(* keyup events of Up and Left in between.  keyLog holds the latest key    *)
(* event: what it was, the keys held before it and the time it came at.    *)

PlayTrack == <<Item(3, 0)>>

InitPlay == Init /\ track = PlayTrack

PlayEvent(o, k) ==
    <<[op |-> o, key |-> k, held |-> pressedKeys, at |-> now]>>

PlayKeyDown ==
    \E k \in ScenarioKeys : \E t \in Later :
        /\ handleKeyDown(k, t)
        /\ keyLog' = PlayEvent("keyDown", k)
        /\ UNCHANGED <<lastFrame, runCount>>

PlayKeyUp ==
    \E k \in ScenarioKeys :
        /\ handleKeyUp(k)
        /\ keyLog' = PlayEvent("keyUp", k)
        /\ UNCHANGED <<lastFrame, runCount>>

NextPlay == StartStep \/ FrameStep \/ PlayKeyDown \/ PlayKeyUp

SpecPlay == InitPlay /\ [][NextPlay]_vars

-----------------------------------------------------------------------------
(* The end-to-end run: the track with the single event {cellIndex 3,       *)
(* spawnOffsetMs 0}, started at time 0 and driven by animation frames at   *)
(* most FrameMax ms apart, with at most one activation, of cell 3 at       *)
(* 1000 ms, and completion checks between the frames.                      *)

E2ETrack == <<Item(3, 0)>>

InitE2E == Init /\ track = E2ETrack

\* The gaps between two frames: the shortest and the longest
FrameGaps == {1, FrameMax}

E2EStart ==
    /\ trackStartTime = Null /\ spawnedIndices = {} /\ now = 0
    /\ startTrack(0)
    /\ lastFrame' = 0
    /\ UNCHANGED <<keyLog, runCount>>

E2EFrame ==
    \E d \in FrameGaps : \E t2 \in (lastFrame + d) .. (lastFrame + d + ReadSkew) :
        /\ lastFrame + d >= now
        /\ t2 <= E2EHorizon
        /\ animate(lastFrame + d, t2)
        /\ lastFrame' = lastFrame + d
        /\ UNCHANGED <<keyLog, runCount>>

E2EPress ==
    /\ isPlaying
    /\ now <= 1000 /\ 1000 <= lastFrame + FrameMax
    /\ tap(3, 1000)
    /\ UNCHANGED <<keyLog, lastFrame, runCount>>

E2ECheck ==
    /\ checkTrackFinished(now)
    /\ UNCHANGED <<keyLog, lastFrame, runCount>>

NextE2E == E2EStart \/ E2EFrame \/ E2EPress \/ E2ECheck

SpecE2E == InitE2E /\ [][NextE2E]_vars

\* The same run with the frames kept coming: animate requests its next frame
\* at the end of every frame, whether or not the session plays.
SpecE2ELive == SpecE2E /\ WF_vars(E2EFrame)

-----------------------------------------------------------------------------
(* Vocabulary of the properties *)

\* The places <<cell, position>> of the grid `cs` that hold a circle
Places(cs) == UNION {{<<i, j>> : j \in 1 .. Len(cs[i])} : i \in CellIndexes}

\* The track indexes the circles of `cs` were created from (the last part of
\* a circle's id)
IndexesIn(cs) == {cs[pl[1]][pl[2]].id[3] : pl \in Places(cs)}

TrackIndexes == 0 .. (Len(track) - 1)

\* The growth of a circle at time t, in thousandths: (t - startTime) / duration
\* clamped to 1
GrowthAt(c, t) ==
    IF (t - c.startTime) >= c.duration THEN 1000
    ELSE ((t - c.startTime) * 1000) \div c.duration

IsResolved(c) == c.hitStatus # Unresolved

\* circle c2 carries the resolution and the size of circle c
SameOutcome(c, c2) ==
    /\ c2.hitStatus = c.hitStatus
    /\ c2.hitTime = c.hitTime
    /\ c2.hitRating = c.hitRating
    /\ c2.size = c.size

-----------------------------------------------------------------------------
(* C1: spawn idempotence.  Within one run the spawned set only grows; a    *)
(* step puts a circle of a track index into the grid only when it adds     *)
(* that index to the spawned set; and no cell, nor the grid as a whole,    *)
(* ever holds two circles created from the same track index.               *)

C1_OneCirclePerIndex ==
    Cardinality(IndexesIn(cells)) = Cardinality(Places(cells))

C1_SpawnStep ==
    /\ (trackStartTime # Null /\ trackStartTime' = trackStartTime)
          => spawnedIndices \subseteq spawnedIndices'
    /\ (IndexesIn(cells') \ IndexesIn(cells))
          \subseteq (spawnedIndices' \ spawnedIndices)

C1_SpawnIdempotence == []C1_OneCirclePerIndex /\ [][C1_SpawnStep]_vars

\* Both events of a two-event track have fired, one circle has already left
\* its cell, and the session is still running: later frames see a spawned
\* index whose circle is gone.
C1_Witness ==
    /\ isPlaying
    /\ track = <<Item(3, 0), Item(3, 300)>>
    /\ spawnedIndices = {0, 1}
    /\ Len(cells[3]) = 1
    /\ cells[3][1].id[3] = 1
    /\ cells[3][1].size > 0

-----------------------------------------------------------------------------
(* C2: frozen resolution.  A circle that is resolved (hitStatus correct or *)
(* miss) keeps its hitStatus, hitTime, hitRating and size through every    *)
(* step after which it is still in its cell.                               *)

C2_FrozenStep ==
    \A i \in CellIndexes :
        \A j \in 1 .. Len(cells[i]) : \A k \in 1 .. Len(cells'[i]) :
            (IsResolved(cells[i][j]) /\ cells'[i][k].id = cells[i][j].id)
               => SameOutcome(cells[i][j], cells'[i][k])

C2_FrozenResolution == [][C2_FrozenStep]_vars

\* A cell holds a resolved circle and an unresolved one whose size was
\* recomputed by a frame later than the first one's resolution, and a further
\* event happened after that frame.
C2_Witness ==
    \E i \in CellIndexes :
        /\ Len(cells[i]) = 2
        /\ IsResolved(cells[i][1])
        /\ ~IsResolved(cells[i][2])
        /\ cells[i][2].size > GrowthAt(cells[i][2], cells[i][1].hitTime)
        /\ GrowthAt(cells[i][2], now) > cells[i][2].size

-----------------------------------------------------------------------------
(* Steps of the session, as the properties name them *)

\* The step is a click or touch on cell c
IsTap(c) == tap(c, now')

\* The step is an animation frame
IsFrame == \E t1 \in Later : t1 <= now' /\ animate(t1, now')

\* The positions of cell c whose circle an activation at time t can resolve
Eligible(c, t) ==
    {j \in 1 .. Len(cells[c]) :
        /\ cells[c][j].hitStatus = Unresolved
        /\ cells[c][j].hitWindowStart <= t
        /\ t <= cells[c][j].hitWindowEnd}

\* The rating the timing difference d earns
RatingOf(d) ==
    IF d <= 25 THEN "perfect"
    ELSE IF d <= 50 THEN "great"
    ELSE IF d <= 100 THEN "good"
    ELSE "ok"

-----------------------------------------------------------------------------
(* C3: window correctness.  For an unresolved circle with perfect time P,  *)
(* alone in its cell, an activation of the cell at T in [P-150, P+200]     *)
(* makes it a Hit at T with the rating of |T-P| (perfect up to 25, great   *)
(* up to 50, good up to 100, ok beyond); an activation after P+200 leaves  *)
(* it as it is, and a frame after P+250 makes it Missed with no rating.    *)

C3_PressStep ==
    \A c \in TapCells :
        (/\ Len(cells[c]) = 1
         /\ cells[c][1].hitStatus = Unresolved
         /\ IsTap(c))
        => LET x == cells[c][1]
               T == now'
               P == x.perfectTime
           IN  /\ (P - 150 <= T /\ T <= P + 200)
                    => /\ Len(cells'[c]) = 1
                       /\ cells'[c][1].hitStatus = "correct"
                       /\ cells'[c][1].hitTime = T
                       /\ cells'[c][1].hitRating = RatingOf(Abs(T - P))
               /\ T > P + 200 => cells'[c] = cells[c]

C3_MissStep ==
    \A c \in TapCells :
        (/\ Len(cells[c]) = 1
         /\ cells[c][1].hitStatus = Unresolved
         /\ now' > cells[c][1].perfectTime + 250
         /\ IsFrame)
        => \E k \in 1 .. Len(cells'[c]) :
              /\ cells'[c][k].id = cells[c][1].id
              /\ cells'[c][k].hitStatus = "miss"
              /\ cells'[c][k].hitRating = NoRating

C3_WindowCorrectness == [][C3_PressStep /\ C3_MissStep]_vars

\* A circle alone in its cell was hit exactly 25 ms after its perfect time and
\* rated perfect.
C3_Witness ==
    \E c \in TapCells :
        /\ Len(cells[c]) = 1
        /\ cells[c][1].hitStatus = "correct"
        /\ cells[c][1].hitTime = cells[c][1].perfectTime + 25
        /\ cells[c][1].hitRating = "perfect"

-----------------------------------------------------------------------------
(* C4: tie-break.  When the activated cell holds two or more unresolved    *)
(* circles inside their hit windows, the activation resolves exactly one   *)
(* of them, one whose current growth no other of them exceeds, and leaves  *)
(* every other circle of the cell as it was; a circle left unresolved is   *)
(* resolved by a later activation at which it is the only one in window.   *)

C4_TieBreakStep ==
    \A c \in TapCells :
        (Eligible(c, now') # {} /\ IsTap(c))
        => /\ Len(cells'[c]) = Len(cells[c])
           /\ \E w \in Eligible(c, now') :
                 /\ cells'[c][w].hitStatus = "correct"
                 /\ cells'[c][w].hitTime = now'
                 /\ \A j \in Eligible(c, now') :
                       GrowthAt(cells[c][j], now') <= GrowthAt(cells[c][w], now')
                 /\ \A j \in 1 .. Len(cells[c]) :
                       j # w => cells'[c][j] = cells[c][j]

C4_TieBreak == [][C4_TieBreakStep]_vars

\* Two circles of one cell, the first spawned earlier: the first was hit while
\* the second was in its window too, and the second was hit by a later
\* activation.
C4_Witness ==
    \E c \in TapCells :
        /\ Len(cells[c]) = 2
        /\ cells[c][1].hitStatus = "correct"
        /\ cells[c][2].hitStatus = "correct"
        /\ cells[c][1].startTime < cells[c][2].startTime
        /\ cells[c][2].hitWindowStart <= cells[c][1].hitTime
        /\ cells[c][1].hitTime < cells[c][2].hitTime

-----------------------------------------------------------------------------
(* C8: absorbed activation.  An activation of cell c leaves every other    *)
(* cell as it was, and when c holds no unresolved circle whose hit window  *)
(* contains the time of the activation it leaves the whole grid as it was  *)
(* (an activation that changes the grid found such a circle in c).         *)

C8_AbsorbedStep ==
    \A c \in TapCells :
        (cells' # cells /\ IsTap(c))
        => /\ \A i \in CellIndexes : i # c => cells'[i] = cells[i]
           /\ Eligible(c, now') # {}

C8_Absorbed == [][C8_AbsorbedStep]_vars

\* A cell holds an unresolved circle whose window has not opened, and an
\* event that is no frame has happened since its size was last recomputed:
\* the state an activation that comes too early leaves.
C8_Witness ==
    \E c \in TapCells :
        /\ Len(cells[c]) = 1
        /\ cells[c][1].hitStatus = Unresolved
        /\ now < cells[c][1].hitWindowStart
        /\ now > cells[c][1].startTime
        /\ cells[c][1].size < GrowthAt(cells[c][1], now)

-----------------------------------------------------------------------------
(* C9: miss transition.  A frame at time T makes an unresolved circle      *)
(* Missed, with hitTime T and no rating, when T > hitWindowEnd + 50; a     *)
(* frame at T <= hitWindowEnd + 50 leaves it unresolved in its cell and    *)
(* only recomputes its size.                                               *)

C9_MissStep ==
    IsFrame =>
        \A c \in CellIndexes : \A j \in 1 .. Len(cells[c]) :
            LET x == cells[c][j]
            IN  x.hitStatus = Unresolved
                => \E k \in 1 .. Len(cells'[c]) :
                      IF now' > x.hitWindowEnd + 50
                      THEN cells'[c][k] =
                              [x EXCEPT !.hitStatus = "miss", !.hitTime = now']
                      ELSE cells'[c][k] =
                              [x EXCEPT !.size = GrowthAt(x, now')]

C9_MissTransition == [][C9_MissStep]_vars

\* A circle was marked Missed by a frame 51 ms after its window closed, after
\* an earlier frame had recomputed its size at the full 1000.
C9_Witness ==
    \E c \in CellIndexes : \E j \in 1 .. Len(cells[c]) :
        /\ cells[c][j].hitStatus = "miss"
        /\ cells[c][j].hitTime = cells[c][j].hitWindowEnd + 51
        /\ cells[c][j].hitRating = NoRating
        /\ cells[c][j].size = 1000

-----------------------------------------------------------------------------
(* C5: the debounce scenario.  Wherever the remembered key events contain, *)
(* starting with no key held, keyDown(Up), keyDown(Left), the release of   *)
(* both keys in either order and keyDown(Up), or a beginning of that, the  *)
(* events pressed cell 1, cell 0, nothing, nothing and cell 1.             *)

Scenario(first, second) ==
    << [op |-> "keyDown", key |-> "ArrowUp"],
       [op |-> "keyDown", key |-> "ArrowLeft"],
       [op |-> "keyUp", key |-> first],
       [op |-> "keyUp", key |-> second],
       [op |-> "keyDown", key |-> "ArrowUp"] >>

ScenarioPresses == <<1, 0, Null, Null, 1>>

\* The n events of keyLog from position p on are the first n of scenario sc,
\* begun with no key held
Plays(sc, p, n) ==
    /\ p + n - 1 <= Len(keyLog)
    /\ keyLog[p].held = {}
    /\ \A m \in 1 .. n :
          /\ keyLog[p + m - 1].op = sc[m].op
          /\ keyLog[p + m - 1].key = sc[m].key

C5_DebounceScenario ==
    \A sc \in {Scenario("ArrowUp", "ArrowLeft"), Scenario("ArrowLeft", "ArrowUp")} :
        \A p \in 1 .. Len(keyLog) : \A n \in 1 .. 5 :
            Plays(sc, p, n) => keyLog[p + n - 1].press = ScenarioPresses[n]

\* The whole scenario has been played, Up released before Left.
C5_Witness ==
    /\ Plays(Scenario("ArrowUp", "ArrowLeft"), 1, 5)
    /\ [m \in 1 .. 5 |-> keyLog[m].press] = ScenarioPresses
    /\ pressedKeys = {"ArrowUp"}

-----------------------------------------------------------------------------
(* C6: the key mapping.  A single direction maps to its edge cell and a    *)
(* corner pair to its corner (Up 1, Down 7, Left 3, Right 5, Up+Left 0,    *)
(* Up+Right 2, Down+Left 6, Down+Right 8); a held set that contains a      *)
(* corner pair maps to the corner of a corner pair it contains, never to   *)
(* the cell of a single direction; and no held set maps to the center 4.   *)

KeyTable ==
    { <<{"ArrowUp"}, 1>>, <<{"ArrowDown"}, 7>>,
      <<{"ArrowLeft"}, 3>>, <<{"ArrowRight"}, 5>>,
      <<{"ArrowUp", "ArrowLeft"}, 0>>, <<{"ArrowUp", "ArrowRight"}, 2>>,
      <<{"ArrowDown", "ArrowLeft"}, 6>>, <<{"ArrowDown", "ArrowRight"}, 8>> }

CornerPairs == {e \in KeyTable : Cardinality(e[1]) = 2}

\* The corners of the corner pairs the held set contains
CornersHeld(keys) == {e[2] : e \in {x \in CornerPairs : x[1] \subseteq keys}}

C6_KeyMapping ==
    LET r == getCellIndexFromKeys(pressedKeys)
    IN  /\ \A e \in KeyTable : pressedKeys = e[1] => r = e[2]
        /\ CornersHeld(pressedKeys) # {} => r \in CornersHeld(pressedKeys)
        /\ r # 4
        /\ \A p \in 1 .. Len(keyLog) :
              keyLog[p].press # Null
                 => keyLog[p].press =
                       getCellIndexFromKeys(keyLog[p].held \cup {keyLog[p].key})

\* Left was pressed while Up was held, and the event pressed the corner 0.
C6_Witness ==
    /\ pressedKeys = {"ArrowUp", "ArrowLeft"}
    /\ Len(keyLog) = 2
    /\ keyLog[2].op = "keyDown"
    /\ keyLog[2].key = "ArrowLeft"
    /\ keyLog[2].held = {"ArrowUp"}
    /\ keyLog[2].press = 0

-----------------------------------------------------------------------------
(* C10: unmapped combinations.  A held set that is empty, {Up, Down} or    *)
(* {Left, Right} selects no cell, and a keyDown that produces such a set   *)
(* presses no cell.                                                        *)

Unmapped == { {}, {"ArrowUp", "ArrowDown"}, {"ArrowLeft", "ArrowRight"} }

C10_UnmappedSelectNothing ==
    /\ pressedKeys \in Unmapped => getCellIndexFromKeys(pressedKeys) = Null
    /\ \A p \in 1 .. Len(keyLog) :
          (/\ keyLog[p].op = "keyDown"
           /\ (keyLog[p].held \cup {keyLog[p].key}) \in Unmapped)
          => keyLog[p].press = Null

-----------------------------------------------------------------------------
(* C7: end to end.  In the run of the single event {cellIndex 3,           *)
(* spawnOffsetMs 0} started at 0 and driven by frames at most FrameMax ms  *)
(* apart, the activation of cell 3 at 1000 ms makes the circle a Hit rated *)
(* perfect; a circle that is not activated stays in the cell until it is   *)
(* Missed, is Missed by 1400 ms with no rating, and has left the cell by   *)
(* 1500 ms.  Its perfect time is 1000 ms after the frame that spawned it.  *)

C7_State ==
    /\ \A j \in 1 .. Len(cells[3]) :
          LET c == cells[3][j]
          IN  /\ c.perfectTime = c.startTime + 1000
              /\ c.startTime <= lastFrame
              /\ c.hitStatus = "correct"
                    => c.hitTime = 1000 /\ c.hitRating = "perfect"
              /\ c.hitStatus = "miss"
                    => c.hitTime <= 1400 /\ c.hitRating = NoRating
              /\ now >= 1400 => c.hitStatus # Unresolved
    /\ now >= 1500 => cells[3] = <<>>

C7_Step ==
    /\ E2EPress
          => /\ Len(cells'[3]) = 1
             /\ cells'[3][1].hitStatus = "correct"
             /\ cells'[3][1].hitTime = 1000
             /\ cells'[3][1].hitRating = "perfect"
    /\ (\E j \in 1 .. Len(cells[3]) : cells[3][j].hitStatus = Unresolved)
          => cells'[3] # <<>>

C7_EndToEnd == []C7_State /\ [][C7_Step]_vars

\* The circle was spawned by a frame after the start, and the activation at
\* 1000 ms made it a Hit rated perfect.
C7_Witness ==
    /\ Len(cells[3]) = 1
    /\ cells[3][1].startTime > 0
    /\ cells[3][1].hitStatus = "correct"
    /\ cells[3][1].hitTime = 1000
    /\ cells[3][1].hitRating = "perfect"

\* The circle was never activated and a frame made it Missed.
C7_MissReached ==
    /\ Len(cells[3]) = 1
    /\ cells[3][1].hitStatus = "miss"

-----------------------------------------------------------------------------
(* Vocabulary of the keyboard properties *)

\* The keys held after the remembered event e
HeldAfter(e) ==
    IF e.op = "keyDown" THEN e.held \cup {e.key} ELSE e.held \ {e.key}

\* The remembered event e is a release that leaves no key held
Emptying(e) == e.op = "keyUp" /\ HeldAfter(e) = {}

\* Positions p < q of keyLog hold two fired presses with no fired press
\* between them
ConsecutivePresses(p, q) ==
    /\ p < q
    /\ keyLog[p].press # Null
    /\ keyLog[q].press # Null
    /\ \A m \in (p + 1) .. (q - 1) : keyLog[m].press = Null

-----------------------------------------------------------------------------
(* C11, as stated: two consecutive fired presses with no release that      *)
(* empties the held set between them never have the same held-set          *)
(* signature (a press is fired only when the held set's signature differs  *)
(* from the one it had at the most recent fired press).                    *)

C11_PressEdgeAsStated ==
    \A p \in 1 .. Len(keyLog) : \A q \in 1 .. Len(keyLog) :
        (/\ ConsecutivePresses(p, q)
         /\ \A m \in (p + 1) .. (q - 1) : ~Emptying(keyLog[m]))
        => KeySignature(HeldAfter(keyLog[p])) # KeySignature(HeldAfter(keyLog[q]))

(* C11, amended: the recorded signature is the signature of the held set   *)
(* after every event (a fired press records it, a release that changes the *)
(* held set records it again, a release that empties it clears it), and    *)
(* two consecutive fired presses with no release at all between them never *)
(* have the same held-set signature.                                       *)

C11_PressEdge ==
    /\ KeySignature(lastTriggeredKeys) = KeySignature(pressedKeys)
    /\ \A p \in 1 .. Len(keyLog) : \A q \in 1 .. Len(keyLog) :
          (/\ ConsecutivePresses(p, q)
           /\ \A m \in (p + 1) .. (q - 1) : keyLog[m].op = "keyDown")
          => KeySignature(HeldAfter(keyLog[p]))
                # KeySignature(HeldAfter(keyLog[q]))

\* Left was pressed while Up was held, released, and pressed again: both
\* key-downs pressed the corner 0, with Up held throughout.
C11_Witness ==
    /\ Len(keyLog) >= 3
    /\ LET n == Len(keyLog)
       IN  /\ keyLog[n - 2].op = "keyDown" /\ keyLog[n - 2].key = "ArrowLeft"
           /\ keyLog[n - 2].held = {"ArrowUp"} /\ keyLog[n - 2].press = 0
           /\ keyLog[n - 1].op = "keyUp" /\ keyLog[n - 1].key = "ArrowLeft"
           /\ keyLog[n].op = "keyDown" /\ keyLog[n].key = "ArrowLeft"
           /\ keyLog[n].press = 0
    /\ lastTriggeredKeys = {"ArrowUp", "ArrowLeft"}

-----------------------------------------------------------------------------
(* C12: auto-repeat is debounced.  A keyDown of a direction that is        *)
(* already held presses no cell, whatever was pressed or released since    *)
(* the hold began.                                                         *)

C12_AutoRepeat ==
    \A p \in 1 .. Len(keyLog) :
        (keyLog[p].op = "keyDown" /\ keyLog[p].key \in keyLog[p].held)
        => keyLog[p].press = Null

\* Up was pressed and held, Left was pressed and released during the hold,
\* and the repeated keyDown of Up that followed pressed no cell.
C12_Witness ==
    /\ Len(keyLog) = 4
    /\ keyLog[1].op = "keyDown" /\ keyLog[1].key = "ArrowUp"
    /\ keyLog[1].held = {} /\ keyLog[1].press = 1
    /\ keyLog[2].op = "keyDown" /\ keyLog[2].key = "ArrowLeft"
    /\ keyLog[3].op = "keyUp" /\ keyLog[3].key = "ArrowLeft"
    /\ keyLog[4].op = "keyDown" /\ keyLog[4].key = "ArrowUp"
    /\ keyLog[4].held = {"ArrowUp"} /\ keyLog[4].press = Null

-----------------------------------------------------------------------------
(* C13: an unrelated key addition is debounced.  A keyDown that adds a new *)
(* direction to a non-empty held set and leaves the mapped cell as it was  *)
(* (Right added to Up+Left, the cell staying 0) presses no cell.  The held  *)
(* sets {Up, Down} and {Left, Right} are left to C10.                      *)

C13_UnrelatedAddition ==
    \A p \in 1 .. Len(keyLog) :
        (/\ keyLog[p].op = "keyDown"
         /\ keyLog[p].held # {}
         /\ keyLog[p].key \notin keyLog[p].held
         /\ HeldAfter(keyLog[p]) \notin Unmapped
         /\ getCellIndexFromKeys(HeldAfter(keyLog[p]))
               = getCellIndexFromKeys(keyLog[p].held))
        => keyLog[p].press = Null

-----------------------------------------------------------------------------
(* C14: invalid spawn events are consumed silently.  A frame of a running  *)
(* session puts every due, not yet spawned track event whose cellIndex is  *)
(* 4 or outside 0..8 into the spawned set and creates no circle for it;    *)
(* the index stays in the spawned set for the rest of the run; the center  *)
(* cell never holds a circle; and every circle is in the cell its          *)
(* cellIndex names.                                                        *)

\* The track indexes whose event names the center or no cell of the grid
InvalidIndexes ==
    {i \in TrackIndexes :
        track[i + 1].cellIndex = 4 \/ track[i + 1].cellIndex \notin 0 .. 8}

C14_State ==
    /\ cells[4] = <<>>
    /\ \A pl \in Places(cells) : cells[pl[1]][pl[2]].cellIndex = pl[1]
    /\ IndexesIn(cells) \cap InvalidIndexes = {}

C14_Step ==
    /\ \A t1 \in Later :
          (/\ isPlaying /\ trackStartTime # Null
           /\ t1 <= now' /\ animate(t1, now'))
          => \A i \in InvalidIndexes :
                (/\ i \notin spawnedIndices
                 /\ track[i + 1].spawnTime <= (t1 - trackStartTime) + 10)
                => i \in spawnedIndices'
    /\ (trackStartTime # Null /\ trackStartTime' = trackStartTime)
          => (spawnedIndices \cap InvalidIndexes) \subseteq spawnedIndices'
    /\ Cardinality(Places(cells')) - Cardinality(Places(cells))
          <= Cardinality((spawnedIndices' \ spawnedIndices) \ InvalidIndexes)

C14_InvalidConsumed == []C14_State /\ [][C14_Step]_vars

\* The three events of the track (cell 9, cell -1, cell 0) have all fired in
\* a running session, and the grid holds the one circle of cell 0.
C14_Witness ==
    /\ isPlaying
    /\ track = <<Item(9, 0), Item(-1, 0), Item(0, 0)>>
    /\ spawnedIndices = {0, 1, 2}
    /\ Places(cells) = {<<0, 1>>}
    /\ cells[0][1].id[3] = 2

-----------------------------------------------------------------------------
(* C15: start() resets the run.  The step that takes the session from      *)
(* stopped to Running leaves all 9 cells empty and the spawned set empty   *)
(* and sets the start time to the current time, whatever the cells held    *)
(* before; so a running session holds only circles of its own run, each of *)
(* a spawned index, and every track event fires again, once, in a new run. *)

C15_StartStep ==
    (~isPlaying /\ isPlaying')
    => /\ cells' = EmptyCells
       /\ spawnedIndices' = {}
       /\ trackStartTime' = now'
       /\ runCount' = runCount + 1

C15_RunState ==
    isPlaying
    => /\ trackStartTime # Null
       /\ \A pl \in Places(cells) :
             cells[pl[1]][pl[2]].startTime >= trackStartTime
       /\ IndexesIn(cells) \subseteq spawnedIndices
       /\ Cardinality(IndexesIn(cells)) = Cardinality(Places(cells))

C15_StartResets == []C15_RunState /\ [][C15_StartStep]_vars

\* The second run of the single-event track is under way and its event has
\* fired again: the cell holds the one circle of this run.
C15_Witness ==
    /\ runCount = 2
    /\ isPlaying
    /\ track = <<Item(3, 0)>>
    /\ spawnedIndices = {0}
    /\ Len(cells[3]) = 1
    /\ cells[3][1].startTime >= trackStartTime

\* A stopped session whose first run left a circle in its cell: a state a
\* second start() acts on.
C15_LeftOver ==
    /\ runCount = 1
    /\ ~isPlaying
    /\ Places(cells) # {}

-----------------------------------------------------------------------------
(* C16: completion.  A completion check stops a running session exactly    *)
(* when the track is empty or the elapsed time is strictly greater than    *)
(* the greatest spawn offset + 1000 + 200 + 100, and nothing else stops    *)
(* it; the stop clears the spawned set and sets the start time to          *)
(* not-running, and while the session is stopped no event is spawned.      *)

\* The step is a completion check
IsCheck == checkTrackFinished(now')

\* The greatest spawn offset of the (non-empty) track
LastOffset ==
    CHOOSE m \in {track[i].spawnTime : i \in 1 .. Len(track)} :
        \A i \in 1 .. Len(track) : track[i].spawnTime <= m

\* The session is over at time t
Over(t) ==
    Len(track) = 0 \/ t - trackStartTime > LastOffset + 1000 + 200 + 100

C16_State ==
    /\ isPlaying => trackStartTime # Null
    /\ ~isPlaying => (trackStartTime = Null /\ spawnedIndices = {})

C16_Step ==
    /\ IsCheck => (isPlaying' <=> ~Over(now'))
    /\ (isPlaying /\ ~isPlaying')
          => /\ Over(now')
             /\ spawnedIndices' = {}
             /\ trackStartTime' = Null
             /\ cells' = cells
    /\ (isPlaying /\ isPlaying')
          => /\ trackStartTime' = trackStartTime
             /\ spawnedIndices \subseteq spawnedIndices'
    /\ (~isPlaying /\ ~isPlaying')
          => /\ spawnedIndices' = {}
             /\ IndexesIn(cells') \subseteq IndexesIn(cells)
             /\ Cardinality(Places(cells')) <= Cardinality(Places(cells))

C16_Completion == []C16_State /\ [][C16_Step]_vars

\* The first run of the single-event track, started at 0, was stopped by the
\* check at 1301 ms, the first instant past its end time of 1300 ms.
C16_Witness ==
    /\ runCount = 1
    /\ ~isPlaying
    /\ track = <<Item(3, 0)>>
    /\ now = 1301
    /\ trackStartTime = Null
    /\ spawnedIndices = {}

\* The same run is still Running after 1300 ms, its end time.
C16_StillRunningAtEnd ==
    /\ runCount = 1
    /\ isPlaying
    /\ track = <<Item(3, 0)>>
    /\ trackStartTime = 0
    /\ now = 1300

-----------------------------------------------------------------------------
(* C17: the firing threshold.  A frame of a running session whose spawn    *)
(* step reads the elapsed time e fires exactly the not yet fired events    *)
(* with spawn offset <= e + 10; so the circle of an event starts no        *)
(* earlier than start time + offset - 10, and it has perfectTime =         *)
(* its start + 1000, hitWindowStart = perfectTime - 150 and hitWindowEnd = *)
(* perfectTime + 200.                                                      *)

C17_FrameStep ==
    \A t1 \in Later :
        (/\ isPlaying /\ trackStartTime # Null
         /\ t1 <= now' /\ animate(t1, now'))
        => spawnedIndices' \ spawnedIndices =
              {i \in TrackIndexes \ spawnedIndices :
                  track[i + 1].spawnTime <= (t1 - trackStartTime) + 10}

C17_Circles ==
    \A pl \in Places(cells) :
        LET c == cells[pl[1]][pl[2]]
        IN  /\ c.perfectTime = c.startTime + 1000
            /\ c.hitWindowStart = c.perfectTime - 150
            /\ c.hitWindowEnd = c.perfectTime + 200
            /\ isPlaying
                  => c.startTime >=
                        trackStartTime + track[c.id[3] + 1].spawnTime - 10

C17_FiringThreshold == []C17_Circles /\ [][C17_FrameStep]_vars

\* The event at offset 300 fired exactly 10 ms before its offset, at the first
\* frame that could fire it.
C17_Witness ==
    /\ isPlaying
    /\ track = <<Item(3, 0), Item(3, 300)>>
    /\ \E j \in 1 .. Len(cells[3]) :
          /\ cells[3][j].id[3] = 1
          /\ cells[3][j].startTime = trackStartTime + 290

-----------------------------------------------------------------------------
(* C18: the firing order.  Events are fired, and their circles put into    *)
(* the cells, in non-decreasing order of spawn offset, also when the track *)
(* is not sorted and several events become due in the same frame: a cell   *)
(* holds its circles in the order they were put in, so no circle of a cell *)
(* comes before one of a smaller spawn offset.                             *)

\* The spawn offset of the track event circle c was created from
OffsetOf(c) == track[c.id[3] + 1].spawnTime

-----------------------------------------------------------------------------
(* C19, as stated: an activation of the cell of an unresolved circle, alone *)
(* in its cell, that arrives after the hit window has closed and within    *)
(* the 50 ms of the miss buffer (hitWindowEnd < now <= hitWindowEnd + 50), *)
(* before a frame has marked the circle Missed, resolves it as a Hit.      *)

C19_GraceHitStep ==
    \A c \in TapCells :
        (/\ IsTap(c)
         /\ Len(cells[c]) = 1
         /\ cells[c][1].hitStatus = Unresolved
         /\ cells[c][1].hitWindowEnd < now'
         /\ now' <= cells[c][1].hitWindowEnd + 50)
        => /\ Len(cells'[c]) = 1
           /\ cells'[c][1].hitStatus = "correct"

C19_GraceHit == [][C19_GraceHitStep]_vars

(* C19, amended: an activation that arrives after the hit window has       *)
(* closed and within the 50 ms of the miss buffer does not resolve the     *)
(* circle: the circle stays as it was, unresolved, until a frame after     *)
(* hitWindowEnd + 50 marks it Missed; no circle is ever a Hit with a hit   *)
(* time outside its hit window.                                            *)

C19_NoGraceStep ==
    \A c \in TapCells :
        IsTap(c)
        => /\ Len(cells'[c]) = Len(cells[c])
           /\ \A j \in 1 .. Len(cells[c]) :
                 (/\ cells[c][j].hitStatus = Unresolved
                  /\ cells[c][j].hitWindowEnd < now'
                  /\ now' <= cells[c][j].hitWindowEnd + 50)
                 => cells'[c][j] = cells[c][j]

C19_HitsInWindow ==
    \A pl \in Places(cells) :
        LET c == cells[pl[1]][pl[2]]
        IN  c.hitStatus = "correct"
               => (c.hitWindowStart <= c.hitTime /\ c.hitTime <= c.hitWindowEnd)

C19_NoGraceHit == []C19_HitsInWindow /\ [][C19_NoGraceStep]_vars

\* An unresolved circle alone in its cell, inside its miss buffer, whose size
\* was last recomputed before its window closed: only events that are no
\* frames, an activation among them, have happened since.
C19_Witness ==
    \E c \in TapCells :
        /\ Len(cells[c]) = 1
        /\ cells[c][1].hitStatus = Unresolved
        /\ cells[c][1].hitWindowEnd < now
        /\ now <= cells[c][1].hitWindowEnd + 50
        /\ cells[c][1].size < 1000

-----------------------------------------------------------------------------
(* C20: the eviction rule.  A frame at time T removes a circle from its    *)
(* cell exactly when the circle is unresolved with growth greater than 1.1 *)
(* or it is resolved and T - resolution time >= 100 ms; so a resolved      *)
(* circle stays at every frame less than 100 ms after its resolution, the  *)
(* frame that marks it Missed included; and an activation or a completion  *)
(* check removes no circle.                                                *)

\* The ids of the circles of grid cs, cell by cell and in order
IdsOf(cs) == [i \in CellIndexes |-> [j \in 1 .. Len(cs[i]) |-> cs[i][j].id]]

\* Circle x of cell i is no longer in the cell after the step
Removed(i, x) == \A k \in 1 .. Len(cells'[i]) : cells'[i][k].id # x.id

C20_FrameStep ==
    IsFrame =>
        \A i \in CellIndexes : \A j \in 1 .. Len(cells[i]) :
            LET x == cells[i][j]
            IN  Removed(i, x)
                <=> \/ (x.hitStatus = Unresolved /\ GrowthAt(x, now') > 1100)
                    \/ (x.hitStatus # Unresolved /\ now' - x.hitTime >= 100)

C20_OtherStep ==
    (IsCheck \/ \E c \in TapCells : IsTap(c)) => IdsOf(cells') = IdsOf(cells)

C20_Eviction == [][C20_FrameStep /\ C20_OtherStep]_vars

\* A frame 99 ms after a circle was hit has left it in its cell: the other
\* circle of the cell carries the size that frame computed.
C20_Witness ==
    \E i \in CellIndexes : \E j, k \in 1 .. Len(cells[i]) :
        /\ cells[i][j].hitStatus = "correct"
        /\ now = cells[i][j].hitTime + 99
        /\ cells[i][k].hitStatus = Unresolved
        /\ cells[i][k].size = GrowthAt(cells[i][k], now)
        /\ cells[i][k].size < 1000

-----------------------------------------------------------------------------
(* C21: the recorded set follows the held set.  After every key event      *)
(* lastTriggeredKeys equals the held set; a step that adds a direction to  *)
(* the held set presses the cell the new set maps to, resolving a circle   *)
(* of that cell that is in its window; a step that removes a direction     *)
(* (a keyUp) changes neither the grid nor the clock, also when the mapped  *)
(* cell changes; and no other step makes a circle a Hit.                   *)

\* The circles of grid cs that are a Hit, by id
HitsOf(cs) ==
    {cs[pl[1]][pl[2]].id :
        pl \in {q \in Places(cs) : cs[q[1]][q[2]].hitStatus = "correct"}}

\* The cell the key table gives the held set (Up and Left only)
TableCell(keys) ==
    IF keys = {"ArrowUp", "ArrowLeft"} THEN 0
    ELSE IF keys = {"ArrowUp"} THEN 1
    ELSE IF keys = {"ArrowLeft"} THEN 3
    ELSE Null

C21_Recorded == lastTriggeredKeys = pressedKeys

C21_KeyStep ==
    /\ (pressedKeys \subseteq pressedKeys' /\ pressedKeys' # pressedKeys)
          => LET c == TableCell(pressedKeys')
             IN  /\ \A i \in CellIndexes \ {c} : cells'[i] = cells[i]
                 /\ Eligible(c, now') # {}
                       => \E j \in Eligible(c, now') :
                             /\ cells'[c][j].hitStatus = "correct"
                             /\ cells'[c][j].hitTime = now'
    /\ (pressedKeys' \subseteq pressedKeys /\ pressedKeys' # pressedKeys)
          => (cells' = cells /\ now' = now)
    /\ pressedKeys' = pressedKeys => HitsOf(cells') \subseteq HitsOf(cells)

C21_RecordedFollowsHeld == []C21_Recorded /\ [][C21_KeyStep]_vars

\* Up was released while Up and Left were held and the circle of cell 3 was
\* unresolved inside its hit window: Left is held alone, the mapped cell has
\* changed from 0 to 3, and the circle is still unresolved.
C21_Witness ==
    /\ pressedKeys = {"ArrowLeft"}
    /\ lastTriggeredKeys = {"ArrowLeft"}
    /\ keyLog = <<[op |-> "keyUp", key |-> "ArrowUp",
                  held |-> {"ArrowUp", "ArrowLeft"}, at |-> now]>>
    /\ Len(cells[3]) = 1
    /\ cells[3][1].hitStatus = Unresolved
    /\ cells[3][1].hitWindowStart <= now
    /\ now <= cells[3][1].hitWindowEnd

-----------------------------------------------------------------------------
(* C22: the shape of a circle.  In every reachable state a circle that is  *)
(* a Hit has a rating and a hit time inside its hit window; a Missed       *)
(* circle has no rating and a hit time later than hitWindowEnd + 50; an    *)
(* unresolved circle has no hit time, no rating and a growth between 0 and *)
(* 1; and no circle has hitStatus incorrect.  A frame marks Missed only    *)
(* circles whose hit window no longer contains the time of the frame, so   *)
(* none that an activation at that time could still hit.                   *)

C22_Shape ==
    \A pl \in Places(cells) :
        LET c == cells[pl[1]][pl[2]]
        IN  /\ c.hitStatus \in {Unresolved, "correct", "miss"}
            /\ c.hitStatus = "correct"
                  => /\ c.hitRating \in {"perfect", "great", "good", "ok"}
                     /\ c.hitWindowStart <= c.hitTime
                     /\ c.hitTime <= c.hitWindowEnd
            /\ c.hitStatus = "miss"
                  => /\ c.hitRating = NoRating
                     /\ c.hitTime > c.hitWindowEnd + 50
            /\ c.hitStatus = Unresolved
                  => /\ c.hitTime = Null
                     /\ c.hitRating = NoRating
                     /\ 0 <= c.size /\ c.size <= 1000

C22_MissStep ==
    \A i \in CellIndexes : \A j \in 1 .. Len(cells[i]) :
        \A k \in 1 .. Len(cells'[i]) :
            (/\ cells[i][j].hitStatus = Unresolved
             /\ cells'[i][k].id = cells[i][j].id
             /\ cells'[i][k].hitStatus = "miss")
            => j \notin Eligible(i, now')

C22_CircleShape == []C22_Shape /\ [][C22_MissStep]_vars

\* A cell holds a Missed circle and a Hit circle at once.
C22_Witness ==
    \E i \in CellIndexes : \E j, k \in 1 .. Len(cells[i]) :
        /\ cells[i][j].hitStatus = "miss"
        /\ cells[i][k].hitStatus = "correct"

-----------------------------------------------------------------------------
(* C23: no circle stays forever.  While frames keep coming and time        *)
(* advances, a circle that is in a cell unresolved is eventually resolved, *)
(* and a cell that holds a circle is eventually empty, also when the       *)
(* completion check has stopped the session with the circle still in its   *)
(* cell.                                                                   *)

SomeUnresolved ==
    \E pl \in Places(cells) : cells[pl[1]][pl[2]].hitStatus = Unresolved

C23_NoCircleForever ==
    /\ SomeUnresolved ~> ~SomeUnresolved
    /\ (Places(cells) # {}) ~> (Places(cells) = {})

\* The completion check has stopped the session and the Missed circle is
\* still in its cell.
C23_Witness ==
    /\ ~isPlaying
    /\ trackStartTime = Null
    /\ now > 1300
    /\ Len(cells[3]) = 1
    /\ cells[3][1].hitStatus = "miss"

====
